---------------------------- MODULE Spec2Model ----------------------------
(***************************************************************************)
(* Model of pr-risk-bot's risk engine, app/risk.py.                        *)
(*                                                                         *)
(* compute_risk(files, pr) is a pure function; it is modelled as the state *)
(* machine Start -> LoopFile* -> Aggregate -> Finish over the locals of    *)
(* the function, and _compute_confidence as the chain of its six rules.    *)
(*                                                                         *)
(* Python strings are tuples of one-character strings, so that the regular *)
(* expressions on paths and patches, the f-strings of the signals and the  *)
(* substring weights of _pick_risk_drivers are computed, not assumed.      *)
(* Optional dictionary values are tagged records: Missing (no such key),   *)
(* Null (None), IntV(n), StrV(t).                                          *)
(***************************************************************************)
EXTENDS Integers, Sequences, FiniteSets, TLC

VARIABLES files, pr, pc, i, st, result, cin, cstep, confidence

vars == <<files, pr, pc, i, st, result, cin, cstep, confidence>>

-----------------------------------------------------------------------------
(* Values of Python dictionaries.                                          *)

Missing == [k |-> "missing"]

Null == [k |-> "null"]

IntV(n) == [k |-> "int", v |-> n]

StrV(t) == [k |-> "str", v |-> t]

\* d.get(key, default): the default only when the key is missing.
Get(val, default) == IF val.k = "missing" THEN default ELSE val

\* Python truthiness of None, an int, a str.
Truthy(val) ==
    CASE val.k = "int" -> val.v # 0
      [] val.k = "str" -> val.v # <<>>
      [] OTHER -> FALSE

\* x or y
Or(val, other) == IF Truthy(val) THEN val ELSE other

-----------------------------------------------------------------------------
(* Text.                                                                   *)

UpperChars == <<"A","B","C","D","E","F","G","H","I","J","K","L","M","N","O","P","Q","R","S",
        "T","U","V","W","X","Y","Z">>

LowerChars == <<"a","b","c","d","e","f","g","h","i","j","k","l","m","n","o","p","q","r","s",
        "t","u","v","w","x","y","z">>

DigitChars == <<"0","1","2","3","4","5","6","7","8","9">>

Range(s) == {s[k] : k \in DOMAIN s}

UpperSet == Range(UpperChars)

AlnumSet == Range(UpperChars) \cup Range(LowerChars) \cup Range(DigitChars)

SpaceSet == {" ", "\t", "\n", "\r", "\f"}

LowerOf ==
    [c \in UpperSet |-> LowerChars[CHOOSE k \in DOMAIN UpperChars : UpperChars[k] = c]]

\* str.lower() of one character.
LowerChar(c) == IF c \in UpperSet THEN LowerOf[c] ELSE c

\* str.lower()
Lower(t) == [k \in DOMAIN t |-> LowerChar(t[k])]

\* [A-Za-z0-9]
IsAlnum(c) == c \in AlnumSet

\* \w
IsWordChar(c) == IsAlnum(c) \/ c = "_"

\* \s
IsSpace(c) == c \in SpaceSet

\* str(n) for n >= 0
RECURSIVE Digits(_)
Digits(n) == IF n < 10 THEN <<DigitChars[n + 1]>>
             ELSE Digits(n \div 10) \o <<DigitChars[(n % 10) + 1]>>

\* needle in t
Contains(t, needle) ==
    \E p \in 0..(Len(t) - Len(needle)) :
        \A k \in 1..Len(needle) : t[p + k] = needle[k]

\* \b at the gap before position p (1..Len(t)+1) of t.
WordAt(t, p) == p >= 1 /\ p <= Len(t) /\ IsWordChar(t[p])

Boundary(t, p) == WordAt(t, p - 1) # WordAt(t, p)

\* The positions after which a match of pat[k..] that starts at p can end. An
\* element of a pattern is a lower-case character, matched ignoring case, or
\* "WS*" (\s*) or "WS+" (\s+).
RECURSIVE Ends(_, _, _, _)
Ends(t, p, pat, k) ==
    IF k > Len(pat) THEN {p}
    ELSE IF pat[k] \in {"WS*", "WS+"}
    THEN LET least == IF pat[k] = "WS+" THEN 1 ELSE 0
             runs == {n \in least..(Len(t) - p + 1) :
                         \A m \in 0..(n - 1) : IsSpace(t[p + m])}
         IN  UNION {Ends(t, p + n, pat, k + 1) : n \in runs}
    ELSE IF p <= Len(t) /\ LowerChar(t[p]) = pat[k]
    THEN Ends(t, p + 1, pat, k + 1)
    ELSE {}

\* re.search(r"(?i)\b(a1|a2|...)\b", t) with alts the set {a1, a2, ...}
SearchWord(alts, t) ==
    \E p \in 1..(Len(t) + 1) :
        /\ Boundary(t, p)
        /\ \E a \in alts : \E e \in Ends(t, p, a, 1) : Boundary(t, e)

\* sep.join(parts)
RECURSIVE Join(_, _)
Join(sep, parts) ==
    IF parts = <<>> THEN <<>>
    ELSE IF Len(parts) = 1 THEN parts[1]
    ELSE parts[1] \o sep \o Join(sep, Tail(parts))

Min(a, b) == IF a < b THEN a ELSE b

Max(a, b) == IF a > b THEN a ELSE b

\* The first n entries of s: s[:n]
Take(s, n) == SubSeq(s, 1, Min(n, Len(s)))

\* sorted(..., key=..., reverse=True) of the pairs <<key, item>>: Python's sort is
\* stable, also when reversed. Inserting from the right, before the first entry
\* whose key is not greater, keeps equal keys in their original order.
RECURSIVE InsertDesc(_, _)
InsertDesc(x, s) ==
    IF s = <<>> THEN <<x>>
    ELSE IF x[1] >= Head(s)[1] THEN <<x>> \o s
    ELSE <<Head(s)>> \o InsertDesc(x, Tail(s))

RECURSIVE SortedDesc(_)
SortedDesc(s) ==
    IF s = <<>> THEN <<>>
    ELSE InsertDesc(Head(s), SortedDesc(Tail(s)))

\* The loop "for x in s: if x not in seen: uniq.append(x); seen.add(x)" from entry
\* k on.
RECURSIVE DedupLoop(_, _, _)
DedupLoop(s, k, uniq) ==
    IF k > Len(s) THEN uniq
    ELSE DedupLoop(s, k + 1, IF s[k] \in Range(uniq) THEN uniq ELSE Append(uniq, s[k]))

Dedup(s) == DedupLoop(s, 1, <<>>)

\* The items of a sequence of pairs <<key, item>>.
Items(pairs) == [k \in DOMAIN pairs |-> pairs[k][2]]

-----------------------------------------------------------------------------
(* Pattern catalog.                                                        *)

\* (?i)\bauth\b, ..., (?i)\badmin\b: the words, each searched between two \b.
RISKY_PATH_PATTERNS ==
    <<<<"a","u","t","h">>, <<"s","e","c","u","r","i","t","y">>, <<"p","a","y","m","e","n",
        "t">>, <<"b","i","l","l","i","n","g">>, <<"c","r","y","p","t","o">>, <<"p","e","r",
        "m","i","s","s","i","o","n">>, <<"a","d","m","i","n">>>>

\* {".py", ".js", ".ts", ".java", ".kt", ".cs", ".go", ".rb", ".php"}
CODE_EXTS ==
    {<<".","p","y">>, <<".","j","s">>, <<".","t","s">>, <<".","j","a","v","a">>, <<".","k",
        "t">>, <<".","c","s">>, <<".","g","o">>, <<".","r","b">>, <<".","p","h","p">>}

\* {".yml", ".yaml", ".json", ".toml", ".properties", ".ini"}
CONFIG_EXTS ==
    {<<".","y","m","l">>, <<".","y","a","m","l">>, <<".","j","s","o","n">>, <<".","t","o",
        "m","l">>, <<".","p","r","o","p","e","r","t","i","e","s">>, <<".","i","n","i">>}

\* {"migrations", "flyway", "liquibase", "alembic", "schema.sql"}
MIGRATION_HINTS ==
    {<<"m","i","g","r","a","t","i","o","n","s">>, <<"f","l","y","w","a","y">>, <<"l","i",
        "q","u","i","b","a","s","e">>, <<"a","l","e","m","b","i","c">>, <<"s","c","h","e",
        "m","a",".","s","q","l">>}

\* {"openapi", "swagger", "proto", "graphql", "schema.graphql"}
API_CONTRACT_HINTS ==
    {<<"o","p","e","n","a","p","i">>, <<"s","w","a","g","g","e","r">>, <<"p","r","o","t",
        "o">>, <<"g","r","a","p","h","q","l">>, <<"s","c","h","e","m","a",".","g","r","a",
        "p","h","q","l">>}

\* (?i)\b(timeout|retry|backoff|circuit|rate\s*limit)\b
ResiliencePattern ==
    {<<"t","i","m","e","o","u","t">>, <<"r","e","t","r","y">>, <<"b","a","c","k","o","f",
        "f">>, <<"c","i","r","c","u","i","t">>, <<"r","a","t","e">> \o <<"WS*">> \o <<"l",
        "i","m","i","t">>}

\* (?i)\b(permitAll|csrf\(\)\.disable|allowedOrigins|\*)\b
SecurityPattern ==
    {<<"p","e","r","m","i","t","a","l","l">>, <<"c","s","r","f","(",")",".","d","i","s","a",
        "b","l","e">>, <<"a","l","l","o","w","e","d","o","r","i","g","i","n","s">>, <<"*">>}

\* (?i)\b(drop\s+table|truncate|delete\s+from|alter\s+table)\b
SqlPattern ==
    {<<"d","r","o","p">> \o <<"WS+">> \o <<"t","a","b","l","e">>, <<"t","r","u","n","c","a",
        "t","e">>,
     <<"d","e","l","e","t","e">> \o <<"WS+">> \o <<"f","r","o","m">>, <<"a","l","t","e",
         "r">> \o <<"WS+">> \o <<"t","a","b","l","e">>}

-----------------------------------------------------------------------------
(* File classifier.                                                        *)

\* re.search(r"(\.[A-Za-z0-9]+)$", path): $ is the end of the string, or the place
\* before a final newline.
_ext(path) ==
    LET ends == {Len(path)} \cup
                (IF path # <<>> /\ path[Len(path)] = "\n" THEN {Len(path) - 1} ELSE {})
        hits == {m \in (DOMAIN path) \X ends :
                    /\ path[m[1]] = "."
                    /\ m[1] < m[2]
                    /\ \A k \in (m[1] + 1)..m[2] : IsAlnum(path[k])}
    IN  IF hits = {} THEN <<>>
        ELSE LET first == CHOOSE m \in hits : \A o \in hits : m[1] <= o[1]
             IN  Lower(SubSeq(path, first[1], first[2]))

\* path.strip("/")
RECURSIVE StripSlashes(_)
StripSlashes(path) ==
    IF path = <<>> THEN path
    ELSE IF Head(path) = "/" THEN StripSlashes(Tail(path))
    ELSE IF path[Len(path)] = "/" THEN StripSlashes(SubSeq(path, 1, Len(path) - 1))
    ELSE path

\* path.strip("/").split("/"): p[0] when there are two segments or more.
_top_level_dir(path) ==
    LET p == StripSlashes(path)
        slashes == {k \in DOMAIN p : p[k] = "/"}
    IN  IF slashes = {} THEN <<"(","r","o","o","t",")">>
        ELSE SubSeq(p, 1, (CHOOSE k \in slashes : \A o \in slashes : k <= o) - 1)

\* re.search(r"(?i)\btest\b", path) or re.search(r"(?i)\bspec\b", path)
IsTest(path) == SearchWord({<<"t","e","s","t">>}, path) \/ SearchWord({<<"s","p","e","c">>}, path)

\* ext in CONFIG_EXTS or "config" in path.lower()
IsConfig(path) == _ext(path) \in CONFIG_EXTS \/ Contains(Lower(path), <<"c","o","n","f","i",
        "g">>)

\* for pat in RISKY_PATH_PATTERNS: if re.search(pat, path): ...; break
IsRisky(path) ==
    \E k \in DOMAIN RISKY_PATH_PATTERNS : SearchWord({RISKY_PATH_PATTERNS[k]}, path)

\* any(h in low_path for h in hints)
AnyHint(hints, low_path) == \E h \in hints : Contains(low_path, h)

\* Counter()[key] += 1, the keys kept in first-seen order as <<key, count>>.
CounterInc(c, key) ==
    IF \E k \in DOMAIN c : c[k][1] = key
    THEN [k \in DOMAIN c |-> IF c[k][1] = key THEN <<key, c[k][2] + 1>> ELSE c[k]]
    ELSE Append(c, <<key, 1>>)

\* Counter.most_common(n): by descending count, first seen first among equals.
MostCommon(c, n) ==
    Take(Items(SortedDesc([k \in DOMAIN c |-> <<c[k][2], c[k]>>])), n)

-----------------------------------------------------------------------------
(* _compute_confidence: the six rules, in the order of the code. c is the  *)
(* confidence before the rule, in the arguments of the call.               *)

Loc(in) == in.adds + in.dels

Rule1(c, in) == IF Loc(in) > 1500 \/ in.changed_files > 60 THEN "Medium" ELSE c

Rule2(c, in) == IF Loc(in) > 4000 \/ in.changed_files > 120 THEN "Low" ELSE c

\* Rule 3 without its test of the confidence so far.
Rule3Unguarded(c, in) ==
    IF in.test_touched = 0 /\ Loc(in) > 300 THEN "Medium" ELSE c

Rule3(c, in) ==
    IF in.test_touched = 0 /\ Loc(in) > 300 /\ c = "High" THEN "Medium" ELSE c

Rule4(c, in) == IF in.test_touched = 0 /\ Loc(in) > 1500 THEN "Low" ELSE c

Rule5(c, in) == IF in.patch_missing >= 10 /\ c = "High" THEN "Medium" ELSE c

Rule6(c, in) == IF in.patch_missing >= 30 THEN "Low" ELSE c

ConfArgs(changed_files, adds, dels, test_touched, patch_missing) ==
    [changed_files |-> changed_files, adds |-> adds, dels |-> dels,
     test_touched |-> test_touched, patch_missing |-> patch_missing]

_compute_confidence(in) ==
    Rule6(Rule5(Rule4(Rule3(Rule2(Rule1("High", in), in), in), in), in), in)

-----------------------------------------------------------------------------
(* _pick_risk_drivers                                                      *)

\* weight(s): the sum of the weights of the substrings s.lower() contains.
weight(s) ==
    LET s_low == Lower(s)
        Has(needle) == Contains(s_low, needle)
    IN  (IF Has(<<"s","e","c","u","r","i","t","y">>) \/ Has(<<"a","u","t","h">>) THEN 100 ELSE 0)
      + (IF Has(<<"s","q","l">>) \/ Has(<<"m","i","g","r","a","t","i","o","n">>) \/ Has(<<
          "s","c","h","e","m","a">>) THEN 90 ELSE 0)
      + (IF Has(<<"c","o","n","f","i","g">>) THEN 70 ELSE 0)
      + (IF Has(<<"n","o"," ","t","e","s","t","s">>) \/ Has(<<"t","e","s","t">>) THEN 65 ELSE 0)
      + (IF Has(<<"l","a","r","g","e"," ","d","i","f","f">>) \/ Has(<<"b","i","g"," ","e",
          "d","i","t">>) THEN 50 ELSE 0)
      + (IF Has(<<"t","o","u","c","h","e","s"," ","m","a","n","y"," ","f","i","l","e","s">>) THEN 40 ELSE 0)
      + (IF Has(<<"r","e","m","o","v","e","d">>) THEN 25 ELSE 0)

\* The ranking without reverse=True: ascending, stable.
RankedAscending(signals) ==
    Items(SortedDesc([k \in DOMAIN signals |-> <<0 - weight(signals[k]), signals[k]>>]))

\* ranked = sorted(signals, key=weight, reverse=True)
Ranked(signals) ==
    Items(SortedDesc([k \in DOMAIN signals |-> <<weight(signals[k]), signals[k]>>]))

\* The loop over ranked from entry k on: append what is not seen yet, stop at
\* max_items entries.
RECURSIVE PickLoop(_, _, _, _)
PickLoop(ranked, k, out, max_items) ==
    IF k > Len(ranked) THEN out
    ELSE LET next == IF ranked[k] \in Range(out) THEN out ELSE Append(out, ranked[k])
         IN  IF Len(next) >= max_items THEN next
             ELSE PickLoop(ranked, k + 1, next, max_items)

_pick_risk_drivers(signals, max_items) ==
    IF signals = <<>> THEN <<>> ELSE PickLoop(Ranked(signals), 1, <<>>, max_items)

-----------------------------------------------------------------------------
(* _review_focus_from_facts, _operational_notes                            *)

\* The six items, in the order of the code.
ReviewItems ==
    <<"Review auth/security/payment-related changes carefully (sensitive area touched).",
      "Verify migrations are reversible; check locks/indexes and rollout/rollback plan.",
      "Validate config defaults and environment overrides (staging vs prod).",
      "Request tests or a justification (touched code without test changes).",
      "Ask for monitoring/rollback notes for deploy (what to watch, how to revert).",
      "Consider splitting PR or requiring explicit sign-off (risk concentrated).">>

\* The two items on the level appended in the other order.
ReviewFocusSignOffFirst(config_files, sql_files, test_touched, risky_paths, level) ==
    LET items ==
            (IF risky_paths # 0 THEN <<ReviewItems[1]>> ELSE <<>>)
         \o (IF sql_files # 0 THEN <<ReviewItems[2]>> ELSE <<>>)
         \o (IF config_files # 0 THEN <<ReviewItems[3]>> ELSE <<>>)
         \o (IF test_touched = 0 THEN <<ReviewItems[4]>> ELSE <<>>)
         \o (IF level = "HIGH" THEN <<ReviewItems[6]>> ELSE <<>>)
         \o (IF level \in {"MEDIUM", "HIGH"} THEN <<ReviewItems[5]>> ELSE <<>>)
    IN  Take(items, 5)

_review_focus_from_facts(config_files, sql_files, test_touched, risky_paths, level) ==
    LET items ==
            (IF risky_paths # 0 THEN <<ReviewItems[1]>> ELSE <<>>)
         \o (IF sql_files # 0 THEN <<ReviewItems[2]>> ELSE <<>>)
         \o (IF config_files # 0 THEN <<ReviewItems[3]>> ELSE <<>>)
         \o (IF test_touched = 0 THEN <<ReviewItems[4]>> ELSE <<>>)
         \o (IF level \in {"MEDIUM", "HIGH"} THEN <<ReviewItems[5]>> ELSE <<>>)
         \o (IF level = "HIGH" THEN <<ReviewItems[6]>> ELSE <<>>)
    IN  Take(items, 5)

NoMigrationsNote == "No DB migrations detected."

NoConfigNote == "No config changes detected."

\* The two notes appended in the other order.
OperationalNotesSwapped(config_files, sql_files) ==
       (IF config_files = 0 THEN <<NoConfigNote>> ELSE <<>>)
    \o (IF sql_files = 0 THEN <<NoMigrationsNote>> ELSE <<>>)

_operational_notes(config_files, sql_files) ==
       (IF sql_files = 0 THEN <<NoMigrationsNote>> ELSE <<>>)
    \o (IF config_files = 0 THEN <<NoConfigNote>> ELSE <<>>)

-----------------------------------------------------------------------------
(* compute_risk, as four steps over its locals.                            *)

\* int(d.get(key, 0) or 0)
IntOrZero(val) == Or(Get(val, IntV(0)), IntV(0)).v

\* int(pr.get("changed_files", len(files)) or len(files))
ChangedFiles(fs, meta) ==
    Or(Get(meta.changed_files, IntV(Len(fs))), IntV(Len(fs))).v

\* sum(1 for f in files if f.get("status") == "renamed")
Renames(fs) ==
    Cardinality({k \in DOMAIN fs : fs[k].status.k = "str" /\ fs[k].status.v = <<"r","e","n",
        "a","m","e","d">>})

\* The diff-size detector, <<delta, signals>>:
\* f"Large diff ({additions}+ / {deletions}-).",
\* f"Medium diff size ({additions}+ / {deletions}-)."
DiffSize(additions, deletions) ==
    IF additions + deletions > 800
    THEN <<30, <<<<"L","a","r","g","e"," ","d","i","f","f"," ","(">> \o Digits(additions) \o <<
        "+"," ","/"," ">> \o Digits(deletions) \o <<"-",")",".">>>>>>
    ELSE IF additions + deletions > 300
    THEN <<18, <<<<"M","e","d","i","u","m"," ","d","i","f","f"," ","s","i","z","e"," ","(">> \o Digits(additions) \o <<
        "+"," ","/"," ">> \o Digits(deletions) \o <<"-",")",".">>>>>>
    ELSE <<0, <<>>>>

\* The file-count detector with its upper threshold at 50.
FileCountAbove50(changed_files) ==
    IF changed_files > 50
    THEN <<20, <<<<"T","o","u","c","h","e","s"," ","m","a","n","y"," ","f","i","l","e","s",
        " ","(">> \o Digits(changed_files) \o <<")",".">>>>>>
    ELSE IF changed_files > 15
    THEN <<10, <<<<"T","o","u","c","h","e","s"," ","m","u","l","t","i","p","l","e"," ","f",
        "i","l","e","s"," ","(">> \o Digits(changed_files) \o <<")",".">>>>>>
    ELSE <<0, <<>>>>

\* The file-count detector:
\* f"Touches many files ({changed_files}).", f"Touches multiple files ({changed_files})."
FileCount(changed_files) ==
    IF changed_files > 40
    THEN <<20, <<<<"T","o","u","c","h","e","s"," ","m","a","n","y"," ","f","i","l","e","s",
        " ","(">> \o Digits(changed_files) \o <<")",".">>>>>>
    ELSE IF changed_files > 15
    THEN <<10, <<<<"T","o","u","c","h","e","s"," ","m","u","l","t","i","p","l","e"," ","f",
        "i","l","e","s"," ","(">> \o Digits(changed_files) \o <<")",".">>>>>>
    ELSE <<0, <<>>>>

\* The rename detector: f"Multiple renames ({renames}). Review for missing references."
RenameCount(renames) ==
    IF renames >= 5
    THEN <<10, <<<<"M","u","l","t","i","p","l","e"," ","r","e","n","a","m","e","s"," ","(">> \o Digits(renames)
                   \o <<")","."," ","R","e","v","i","e","w"," ","f","o","r"," ","m","i","s",
                       "s","i","n","g"," ","r","e","f","e","r","e","n","c","e","s",".">>>>>>
    ELSE <<0, <<>>>>

\* Lines 144-183: the metadata, the three detectors of the whole change, and the
\* counters of the loop at zero.
StartLocals(fs, meta) ==
    LET additions == IntOrZero(meta.additions)
        deletions == IntOrZero(meta.deletions)
        changed_files == ChangedFiles(fs, meta)
        d1 == DiffSize(additions, deletions)
        d2 == FileCount(changed_files)
        d3 == RenameCount(Renames(fs))
    IN  [additions |-> additions, deletions |-> deletions,
         changed_files |-> changed_files,
         score |-> d1[1] + d2[1] + d3[1],
         signals |-> d1[2] \o d2[2] \o d3[2],
         risky_paths |-> 0, config_files |-> 0, sql_files |-> 0,
         test_touched |-> 0, core_code_touched |-> 0, patch_missing |-> 0,
         ext_counts |-> <<>>, top_dirs |-> <<>>,
         touched_migrations |-> FALSE, touched_api_contract |-> FALSE]

\* The keyword heuristics on a patch, <<delta, signals>>:
\* f"Changes resilience behavior hinted in {path} (timeouts/retries/rate limits).",
\* f"Potential security weakening patterns in {path}.",
\* f"Potentially risky SQL pattern hinted in {path}."
PatchScan(patch, path) ==
    IF patch.k = "str" /\ patch.v # <<>>
    THEN LET r == SearchWord(ResiliencePattern, patch.v)
             w == SearchWord(SecurityPattern, patch.v)
             q == SearchWord(SqlPattern, patch.v)
         IN  << (IF r THEN 4 ELSE 0) + (IF w THEN 8 ELSE 0) + (IF q THEN 10 ELSE 0),
                (IF r THEN <<<<"C","h","a","n","g","e","s"," ","r","e","s","i","l","i","e",
                    "n","c","e"," ","b","e","h","a","v","i","o","r"," ","h","i","n","t","e",
                    "d"," ","i","n"," ">> \o path
                               \o <<" ","(","t","i","m","e","o","u","t","s","/","r","e","t",
                                   "r","i","e","s","/","r","a","t","e"," ","l","i","m","i",
                                   "t","s",")",".">>>> ELSE <<>>)
             \o (IF w THEN <<<<"P","o","t","e","n","t","i","a","l"," ","s","e","c","u","r",
                 "i","t","y"," ","w","e","a","k","e","n","i","n","g"," ","p","a","t","t",
                 "e","r","n","s"," ","i","n"," ">> \o path \o <<".">>>>
                      ELSE <<>>)
             \o (IF q THEN <<<<"P","o","t","e","n","t","i","a","l","l","y"," ","r","i","s",
                 "k","y"," ","S","Q","L"," ","p","a","t","t","e","r","n"," ","h","i","n",
                 "t","e","d"," ","i","n"," ">> \o path \o <<".">>>>
                      ELSE <<>>) >>
    ELSE <<0, <<>>>>

\* The big-edit detector of one file: f"Big edit in {path} ({adds}+/{dels}-)."
BigEdit(adds, dels, path) ==
    IF adds + dels > 250
    THEN <<6, <<<<"B","i","g"," ","e","d","i","t"," ","i","n"," ">> \o path \o <<" ","(">> \o Digits(adds) \o <<
        "+","/">>
                  \o Digits(dels) \o <<"-",")",".">>>>>>
    ELSE <<0, <<>>>>

\* The removed-file detector of one file:
\* f"File removed: {path}. Confirm no runtime dependency."
Removed(status, path) ==
    IF status = <<"r","e","m","o","v","e","d">>
    THEN <<3, <<<<"F","i","l","e"," ","r","e","m","o","v","e","d",":"," ">> \o path \o <<
        "."," ","C","o","n","f","i","r","m"," ","n","o"," ","r","u","n","t","i","m","e"," ",
        "d","e","p","e","n","d","e","n","c","y",".">>>>>>
    ELSE <<0, <<>>>>

\* The fields of one file record as the loop reads them: lines 186-198.
FileFacts(f) ==
    LET path == Or(Get(f.filename, StrV(<<>>)), StrV(<<>>)).v
    IN  [path |-> path,
         status |-> Or(Get(f.status, StrV(<<>>)), StrV(<<>>)).v,
         ext |-> _ext(path),
         patch |-> Get(f.patch, Null),
         adds |-> IntOrZero(f.additions),
         dels |-> IntOrZero(f.deletions)]

\* What one file adds to the score: the patch heuristics, the big edit, the removal.
FileDelta(f) ==
    LET x == FileFacts(f)
    IN  PatchScan(x.patch, x.path)[1] + BigEdit(x.adds, x.dels, x.path)[1]
        + Removed(x.status, x.path)[1]

\* What one file adds to the signals.
FileSignals(f) ==
    LET x == FileFacts(f)
    IN  PatchScan(x.patch, x.path)[2] \o BigEdit(x.adds, x.dels, x.path)[2]
        \o Removed(x.status, x.path)[2]

\* ext in CODE_EXTS
IsCode(path) == _ext(path) \in CODE_EXTS

\* ext == ".sql"
IsSql(path) == _ext(path) = <<".","s","q","l">>

\* The counters of the loop after one more file.
Counted(s, f) ==
    LET x == FileFacts(f)
        low_path == Lower(x.path)
    IN  [s EXCEPT
           !.ext_counts = CounterInc(@, IF x.ext # <<>> THEN x.ext ELSE <<"(","n","o","n",
               "e",")">>),
           !.top_dirs = CounterInc(@, _top_level_dir(x.path)),
           !.patch_missing = IF ~Truthy(x.patch) THEN @ + 1 ELSE @,
           !.test_touched = IF IsTest(x.path) THEN @ + 1 ELSE @,
           !.core_code_touched = IF IsCode(x.path) THEN @ + 1 ELSE @,
           !.config_files = IF IsConfig(x.path) THEN @ + 1 ELSE @,
           !.sql_files = IF IsSql(x.path) THEN @ + 1 ELSE @,
           !.touched_migrations = @ \/ AnyHint(MIGRATION_HINTS, low_path),
           !.touched_api_contract = @ \/ AnyHint(API_CONTRACT_HINTS, low_path),
           !.risky_paths = IF IsRisky(x.path) THEN @ + 1 ELSE @]

\* One iteration that keeps the running score within 100.
FileStepClamped(s, f) ==
    [Counted(s, f) EXCEPT !.score = Min(100, @ + FileDelta(f)),
                          !.signals = @ \o FileSignals(f)]

\* Lines 185-247: one iteration of the loop, on the file record f.
FileStep(s, f) ==
    [Counted(s, f) EXCEPT !.score = @ + FileDelta(f),
                          !.signals = @ \o FileSignals(f)]

\* Lines 249-263: the detectors on the totals of the loop.
\* f"Touches sensitive area paths (count={risky_paths})."
RiskyPaths(s) ==
    IF s.risky_paths > 0
    THEN <<Min(20, 6 + 2 * s.risky_paths),
           <<<<"T","o","u","c","h","e","s"," ","s","e","n","s","i","t","i","v","e"," ","a",
               "r","e","a"," ","p","a","t","h","s"," ","(","c","o","u","n","t","=">> \o Digits(s.risky_paths) \o <<
               ")",".">>>>>>
    ELSE <<0, <<>>>>

\* f"Config changes detected (count={config_files})."
ConfigFiles(s) ==
    IF s.config_files > 0
    THEN <<Min(12, 4 + 2 * s.config_files),
           <<<<"C","o","n","f","i","g"," ","c","h","a","n","g","e","s"," ","d","e","t","e",
               "c","t","e","d"," ","(","c","o","u","n","t","=">> \o Digits(s.config_files) \o <<
               ")",".">>>>>>
    ELSE <<0, <<>>>>

\* f"SQL changes detected (count={sql_files})."
SqlFiles(s) ==
    IF s.sql_files > 0
    THEN <<Min(18, 6 + 4 * s.sql_files),
           <<<<"S","Q","L"," ","c","h","a","n","g","e","s"," ","d","e","t","e","c","t","e",
               "d"," ","(","c","o","u","n","t","=">> \o Digits(s.sql_files) \o <<")",".">>>>>>
    ELSE <<0, <<>>>>

\* "Touches code but no tests appear modified. Possible test gap."
TestGap(s) ==
    IF s.core_code_touched > 0 /\ s.test_touched = 0
    THEN <<18, <<<<"T","o","u","c","h","e","s"," ","c","o","d","e"," ","b","u","t"," ","n",
        "o"," ","t","e","s","t","s"," ","a","p","p","e","a","r"," ","m","o","d","i","f","i",
        "e","d","."," ","P","o","s","s","i","b","l","e"," ","t","e","s","t"," ","g","a","p",
        ".">>>>>>
    ELSE <<0, <<>>>>

AggregateStep(s) ==
    LET d1 == RiskyPaths(s)
        d2 == ConfigFiles(s)
        d3 == SqlFiles(s)
        d4 == TestGap(s)
    IN  [s EXCEPT !.score = @ + d1[1] + d2[1] + d3[1] + d4[1],
                  !.signals = @ \o d1[2] \o d2[2] \o d3[2] \o d4[2]]

\* max(0, min(100, score))
Clamp(score) == Max(0, Min(100, score))

\* int(round(score / 10.0)): score / 10.0 is exact at the halves, and round()
\* rounds a half to the even neighbour.
RoundTenth(score) ==
    LET q == score \div 10
        r == score % 10
    IN  IF r < 5 THEN q
        ELSE IF r > 5 THEN q + 1
        ELSE IF q % 2 = 0 THEN q ELSE q + 1

Score10(score) == Max(0, Min(10, RoundTenth(score)))

\* The thresholds as strict comparisons.
LevelStrict(score) ==
    IF score > 70 THEN "HIGH" ELSE IF score > 40 THEN "MEDIUM" ELSE "LOW"

Level(score) ==
    IF score >= 70 THEN "HIGH" ELSE IF score >= 40 THEN "MEDIUM" ELSE "LOW"

\* The directory entries of most_common(5).
ImpactDirsFive(top_dirs) ==
    LET top == MostCommon(top_dirs, 5)
    IN  [k \in DOMAIN top |-> top[k][1] \o <<"/"," ","(","f","i","l","e","s",":"," ">> \o Digits(top[k][2]) \o <<
        ")">>]

\* for d, n in top_dirs.most_common(4): impact.append(f"{d}/ (files: {n})")
ImpactDirs(top_dirs) ==
    LET top == MostCommon(top_dirs, 4)
    IN  [k \in DOMAIN top |-> top[k][1] \o <<"/"," ","(","f","i","l","e","s",":"," ">> \o Digits(top[k][2]) \o <<
        ")">>]

\* The four conditional entries, in the order of the code:
\* "Config touched (env defaults/overrides may change).",
\* "Database schema/migrations likely affected.",
\* "API contract files touched (OpenAPI/Proto/GraphQL).",
\* "Sensitive subsystem paths touched (auth/security/billing/etc)."
ImpactNotes ==
    <<<<"C","o","n","f","i","g"," ","t","o","u","c","h","e","d"," ","(","e","n","v"," ","d",
        "e","f","a","u","l","t","s","/","o","v","e","r","r","i","d","e","s"," ","m","a","y",
        " ","c","h","a","n","g","e",")",".">>,
      <<"D","a","t","a","b","a","s","e"," ","s","c","h","e","m","a","/","m","i","g","r","a",
          "t","i","o","n","s"," ","l","i","k","e","l","y"," ","a","f","f","e","c","t","e",
          "d",".">>,
      <<"A","P","I"," ","c","o","n","t","r","a","c","t"," ","f","i","l","e","s"," ","t","o",
          "u","c","h","e","d"," ","(","O","p","e","n","A","P","I","/","P","r","o","t","o",
          "/","G","r","a","p","h","Q","L",")",".">>,
      <<"S","e","n","s","i","t","i","v","e"," ","s","u","b","s","y","s","t","e","m"," ","p",
          "a","t","h","s"," ","t","o","u","c","h","e","d"," ","(","a","u","t","h","/","s",
          "e","c","u","r","i","t","y","/","b","i","l","l","i","n","g","/","e","t","c",")",
          ".">>>>

ImpactMap(s) ==
    LET impact ==
            ImpactDirs(s.top_dirs)
         \o (IF s.config_files # 0 THEN <<ImpactNotes[1]>> ELSE <<>>)
         \o (IF s.sql_files # 0 \/ s.touched_migrations THEN <<ImpactNotes[2]>> ELSE <<>>)
         \o (IF s.touched_api_contract THEN <<ImpactNotes[3]>> ELSE <<>>)
         \o (IF s.risky_paths # 0 THEN <<ImpactNotes[4]>> ELSE <<>>)
    IN  Take(impact, 8)

\* f"{changed_files} files | {additions}+/{deletions}- | by extension: {top_exts}"
FileSummary(s) ==
    LET top == MostCommon(s.ext_counts, 8)
        top_exts == Join(<<","," ">>, [k \in DOMAIN top |-> top[k][1] \o <<":">> \o Digits(top[k][2])])
    IN  Digits(s.changed_files) \o <<" ","f","i","l","e","s"," ","|"," ">> \o Digits(s.additions) \o <<
        "+","/">>
        \o Digits(s.deletions) \o <<"-"," ","|"," ","b","y"," ","e","x","t","e","n","s","i",
            "o","n",":"," ">> \o top_exts

\* Lines 265-324: the clamp, the labels, the lists and the result.
FinishResult(s) ==
    LET score == Clamp(s.score)
        level == Level(score)
        uniq_signals == Dedup(s.signals)
    IN  [score_100 |-> score,
         score_10 |-> Score10(score),
         level |-> level,
         confidence |-> _compute_confidence(ConfArgs(s.changed_files, s.additions,
                            s.deletions, s.test_touched, s.patch_missing)),
         signals |-> uniq_signals,
         impact_map |-> ImpactMap(s),
         risk_drivers |-> _pick_risk_drivers(uniq_signals, 6),
         review_focus |-> _review_focus_from_facts(s.config_files, s.sql_files,
                              s.test_touched, s.risky_paths, level),
         operational_notes |-> _operational_notes(s.config_files, s.sql_files),
         file_summary |-> FileSummary(s),
         changed_files |-> s.changed_files,
         additions |-> s.additions,
         deletions |-> s.deletions,
         config_files |-> s.config_files,
         sql_files |-> s.sql_files,
         test_touched |-> s.test_touched,
         risky_paths |-> s.risky_paths]

\* compute_risk(files, pr) as one function: the fold of the four steps.
RECURSIVE Fold(_, _)
Fold(s, fs) == IF fs = <<>> THEN s ELSE Fold(FileStep(s, Head(fs)), Tail(fs))

compute_risk(fs, meta) == FinishResult(AggregateStep(Fold(StartLocals(fs, meta), fs)))

-----------------------------------------------------------------------------
(* Inputs.                                                                 *)

\* One record of the file list, as the GitHub API gives it.
File(filename, status, additions, deletions, patch) ==
    [filename |-> filename, status |-> status, additions |-> additions,
     deletions |-> deletions, patch |-> patch]

Meta(additions, deletions, changed_files) ==
    [additions |-> additions, deletions |-> deletions, changed_files |-> changed_files]

\* The longest file list of Spec.
MaxFiles == 2

\* The longest file list of SpecWide.
MaxWide == 5

\* auth/login.py, modified, no counts, no patch.
LoginPy == File(StrV(<<"a","u","t","h","/","l","o","g","i","n",".","p","y">>), StrV(<<"m",
        "o","d","i","f","i","e","d">>), Missing, Missing, Missing)

\* README.md, removed, with the patch "retry = 3".
ReadmeMd == File(StrV(<<"R","E","A","D","M","E",".","m","d">>), StrV(<<"r","e","m","o","v",
        "e","d">>), IntV(0), IntV(12),
                 StrV(<<"r","e","t","r","y"," ","="," ","3">>))

\* auth/config/schema.sql, added, 300 additions, the patch
\* "timeout permitAll DROP  TABLE t".
SchemaSql == File(StrV(<<"a","u","t","h","/","c","o","n","f","i","g","/","s","c","h","e",
        "m","a",".","s","q","l">>), StrV(<<"a","d","d","e","d">>), IntV(300), Null,
                  StrV(<<"t","i","m","e","o","u","t"," ","p","e","r","m","i","t","A","l",
                      "l"," ","D","R","O","P"," "," ","T","A","B","L","E"," ","t">>))

\* test/app.py, modified, with the patch "x = 1".
TestPy == File(StrV(<<"t","e","s","t","/","a","p","p",".","p","y">>), StrV(<<"m","o","d",
        "i","f","i","e","d">>), IntV(3), IntV(1), StrV(<<"x"," ","="," ","1">>))

\* docs/guide.txt, removed, 200 + 51 lines, the patch "Rate  Limit; TRUNCATE; a*b".
GuideTxt == File(StrV(<<"d","o","c","s","/","g","u","i","d","e",".","t","x","t">>), StrV(<<
        "r","e","m","o","v","e","d">>), IntV(200), IntV(51),
                 StrV(<<"R","a","t","e"," "," ","L","i","m","i","t",";"," ","T","R","U","N",
                     "C","A","T","E",";"," ","a","*","b">>))

\* app.json, renamed, the patch None.
AppJson == File(StrV(<<"a","p","p",".","j","s","o","n">>), StrV(<<"r","e","n","a","m","e",
        "d">>), IntV(1), IntV(1), Null)

Catalogue == {LoginPy, ReadmeMd, SchemaSql, TestPy, GuideTxt, AppJson}

Metas ==
    {Meta(a, IntV(0), c) : a \in {Missing, IntV(0), IntV(301), IntV(1000)},
                           c \in {Missing, IntV(0), IntV(50)}}
    \cup {Meta(Null, Null, Null), Meta(IntV(301), IntV(500), IntV(16))}

\* Six files in five top-level directories and at the root, five of them renamed:
\* auth/config/openapi.sql, web/a.js, api/b.go, lib/c.rb, /cmd/d.py, Makefile.
WideCatalogue ==
    {File(StrV(<<"a","u","t","h","/","c","o","n","f","i","g","/","o","p","e","n","a","p",
        "i",".","s","q","l">>), StrV(<<"r","e","n","a","m","e","d">>), Missing, Missing, Missing),
     File(StrV(<<"w","e","b","/","a",".","j","s">>), StrV(<<"r","e","n","a","m","e","d">>), IntV(1), IntV(0), Null),
     File(StrV(<<"a","p","i","/","b",".","g","o">>), StrV(<<"r","e","n","a","m","e","d">>), IntV(1), IntV(0), Null),
     File(StrV(<<"l","i","b","/","c",".","r","b">>), StrV(<<"r","e","n","a","m","e","d">>), IntV(1), IntV(0), Null),
     File(StrV(<<"/","c","m","d","/","d",".","p","y">>), StrV(<<"r","e","n","a","m","e",
         "d">>), IntV(1), IntV(0), Null),
     File(StrV(<<"M","a","k","e","f","i","l","e">>), StrV(<<"m","o","d","i","f","i","e",
         "d">>), IntV(1), IntV(0), StrV(<<"a","l","l",":">>))}

WideMetas == {Meta(IntV(1000), IntV(0), IntV(50)), Meta(Missing, Missing, Missing)}

\* The sequences over S of length n at most.
Lists(S, n) == UNION {[1..m -> S] : m \in 0..n}

\* Those that hold no record twice.
DistinctLists(S, n) == {s \in Lists(S, n) : \A a, b \in DOMAIN s : a # b => s[a] # s[b]}

NoLocals == [k |-> "none"]

NoResult == [k |-> "none"]

-----------------------------------------------------------------------------
(* compute_risk as a state machine.                                        *)

Init ==
    /\ files \in Lists(Catalogue, MaxFiles)
    /\ pr \in Metas
    /\ pc = "start"
    /\ i = 0
    /\ st = NoLocals
    /\ result = NoResult
    /\ cin = ConfArgs(0, 0, 0, 0, 0)
    /\ cstep = 0
    /\ confidence = "High"

InitWide ==
    /\ files \in DistinctLists(WideCatalogue, MaxWide)
    /\ pr \in WideMetas
    /\ pc = "start"
    /\ i = 0
    /\ st = NoLocals
    /\ result = NoResult
    /\ cin = ConfArgs(0, 0, 0, 0, 0)
    /\ cstep = 0
    /\ confidence = "High"

Start ==
    /\ pc = "start"
    /\ st' = StartLocals(files, pr)
    /\ i' = 1
    /\ pc' = "loop"
    /\ UNCHANGED <<files, pr, result, cin, cstep, confidence>>

LoopFile ==
    /\ pc = "loop"
    /\ i <= Len(files)
    /\ st' = FileStep(st, files[i])
    /\ i' = i + 1
    /\ UNCHANGED <<files, pr, pc, result, cin, cstep, confidence>>

Aggregate ==
    /\ pc = "loop"
    /\ i > Len(files)
    /\ st' = AggregateStep(st)
    /\ pc' = "clamp"
    /\ UNCHANGED <<files, pr, i, result, cin, cstep, confidence>>

\* st.score keeps the sum before the clamp of line 266; the clamped score is
\* result.score_100.
Finish ==
    /\ pc = "clamp"
    /\ result' = FinishResult(st)
    /\ pc' = "done"
    /\ UNCHANGED <<files, pr, i, st, cin, cstep, confidence>>

Next == Start \/ LoopFile \/ Aggregate \/ Finish

Spec == Init /\ [][Next]_vars

SpecWide == InitWide /\ [][Next]_vars

-----------------------------------------------------------------------------
(* _compute_confidence as a state machine: one action per rule.            *)

ConfInputs ==
    {ConfArgs(c, a, d, t, m) : c \in {0, 60, 61, 120, 121},
                               a \in {0, 300, 301, 1500, 1501, 4000, 4001},
                               d \in {0, 1}, t \in {0, 1},
                               m \in {0, 9, 10, 29, 30}}

InitConf ==
    /\ cin \in ConfInputs
    /\ cstep = 0
    /\ confidence = "High"
    /\ files = <<>>
    /\ pr = Meta(Missing, Missing, Missing)
    /\ pc = "confidence"
    /\ i = 0
    /\ st = NoLocals
    /\ result = NoResult

ConfStep(k, c) ==
    /\ cstep = k - 1
    /\ cstep' = k
    /\ confidence' = c
    /\ UNCHANGED <<files, pr, pc, i, st, result, cin>>

ConfRule1 == ConfStep(1, Rule1(confidence, cin))

ConfRule2 == ConfStep(2, Rule2(confidence, cin))

ConfRule3 == ConfStep(3, Rule3(confidence, cin))

ConfRule4 == ConfStep(4, Rule4(confidence, cin))

ConfRule5 == ConfStep(5, Rule5(confidence, cin))

ConfRule6 == ConfStep(6, Rule6(confidence, cin))

NextConf == ConfRule1 \/ ConfRule2 \/ ConfRule3 \/ ConfRule4 \/ ConfRule5 \/ ConfRule6

SpecConf == InitConf /\ [][NextConf]_vars

-----------------------------------------------------------------------------
(* Properties.                                                             *)

Done == pc = "done"

NoDuplicates(s) == \A a, b \in DOMAIN s : a # b => s[a] # s[b]

\* The first place of x in s.
IndexOf(s, x) == CHOOSE k \in DOMAIN s : s[k] = x /\ \A o \in 1..(k - 1) : s[o] # x

\* Zero, None or no such key.
ZeroOrAbsent(val) == val \in {Missing, Null, IntV(0)}

\* C1: score_100 is in 0..100, score_10 is in 0..10, and score_10 is score_100 / 10
\* rounded to the nearest integer, a half rounded up: (score_100 + 5) div 10.
C1_Score10RoundsHalfUp ==
    Done => /\ result.score_100 \in 0..100
            /\ result.score_10 \in 0..10
            /\ result.score_10 = (result.score_100 + 5) \div 10

\* C2: the level is decided by the clamped score alone: HIGH exactly from 70 on,
\* MEDIUM exactly from 40 to 69, LOW exactly up to 39; a sum above 100 before the
\* clamp gives HIGH.
C2_LevelThresholds ==
    Done => /\ result.level \in {"LOW", "MEDIUM", "HIGH"}
            /\ result.level = "HIGH" <=> result.score_100 >= 70
            /\ result.level = "MEDIUM" <=> (40 <= result.score_100 /\ result.score_100 <= 69)
            /\ result.level = "LOW" <=> result.score_100 <= 39
            /\ st.score > 100 => (result.score_100 = 100 /\ result.level = "HIGH")

\* C2's case: the detectors sum to more than 100.
C2_Witness == Done /\ st.score > 100 /\ result.level = "HIGH"

\* C3: no files and additions, deletions and changed-file count zero or absent give
\* score 0, LOW, confidence High, no signals, no risk drivers, and the two notes, the
\* one on migrations first.
C3_EmptyChange ==
    (/\ Done
     /\ files = <<>>
     /\ ZeroOrAbsent(pr.additions)
     /\ ZeroOrAbsent(pr.deletions)
     /\ ZeroOrAbsent(pr.changed_files))
    => /\ result.score_100 = 0
       /\ result.level = "LOW"
       /\ result.confidence = "High"
       /\ result.signals = <<>>
       /\ result.risk_drivers = <<>>
       /\ result.operational_notes = <<NoMigrationsNote, NoConfigNote>>

\* C3's case: the call on the empty change has returned.
C3_Witness ==
    /\ Done
    /\ files = <<>>
    /\ pr = Meta(IntV(0), IntV(0), IntV(0))
    /\ result.score_100 = 0

\* d comes before x in the ranking of the signals sig: a greater weight, or the
\* same weight and an earlier place in sig.
RanksBefore(sig, d, x) ==
    \/ weight(d) > weight(x)
    \/ weight(d) = weight(x) /\ IndexOf(sig, d) < IndexOf(sig, x)

\* C4: signals holds every emitted signal once, in the order of first occurrence;
\* risk_drivers is the first min(6, |signals|) signals by descending weight, equal
\* weights in their order in signals.
C4_SignalsAndDrivers ==
    Done =>
        LET sig == result.signals
            drv == result.risk_drivers
        IN  /\ NoDuplicates(sig)
            /\ Range(sig) = Range(st.signals)
            /\ \A a, b \in DOMAIN sig :
                   a < b => IndexOf(st.signals, sig[a]) < IndexOf(st.signals, sig[b])
            /\ Len(drv) <= 6
            /\ Len(drv) = Min(6, Len(sig))
            /\ Range(drv) \subseteq Range(sig)
            /\ \A a, b \in DOMAIN drv : a < b => RanksBefore(sig, drv[a], drv[b])
            /\ \A d \in Range(drv) : \A x \in Range(sig) \ Range(drv) :
                   RanksBefore(sig, d, x)

\* C4's case: a signal was emitted twice, more than six signals remain, and two of
\* the drivers have the same weight.
C4_Witness ==
    /\ Done
    /\ Len(st.signals) > Len(result.signals)
    /\ Len(result.signals) > 6
    /\ \E a, b \in DOMAIN result.risk_drivers :
           a < b /\ weight(result.risk_drivers[a]) = weight(result.risk_drivers[b])

\* High > Medium > Low
Rank(c) == CASE c = "High" -> 2 [] c = "Medium" -> 1 [] c = "Low" -> 0

\* The confidence at the start of the chain and after each of the six rules.
ChainValues(in) ==
    LET c1 == Rule1("High", in)
        c2 == Rule2(c1, in)
        c3 == Rule3(c2, in)
        c4 == Rule4(c3, in)
        c5 == Rule5(c4, in)
    IN  <<"High", c1, c2, c3, c4, c5, Rule6(c5, in)>>

\* C5: no rule of the chain raises the confidence, and the value after the sixth
\* rule is the lowest value of the chain.
C5_ConfidenceNeverRaised ==
    [][/\ Rank(confidence') <= Rank(confidence)
       /\ cstep' = 6 => \A k \in 1..7 : Rank(confidence') <= Rank(ChainValues(cin)[k])]_vars

\* C5's case: the chain has ended at Low after rule 2 set it, on arguments for
\* which the condition of rule 3 on tests and lines holds.
C5_Witness ==
    /\ cstep = 6
    /\ confidence = "Low"
    /\ cin.test_touched = 0
    /\ Loc(cin) > 4000
    /\ cin.patch_missing >= 10

\* C6: 1000 additions, no deletions, 50 changed files and the one file auth/login.py
\* give score 76 = 30 + 20 + 8 + 18, HIGH, confidence Medium.
C6_Scenario ==
    (/\ Done
     /\ files = <<LoginPy>>
     /\ pr = Meta(IntV(1000), IntV(0), IntV(50)))
    => /\ result.score_100 = 76
       /\ st.score = 30 + 20 + 8 + 18
       /\ result.level = "HIGH"
       /\ result.confidence = "Medium"
       /\ ChainValues(ConfArgs(50, 1000, 0, 0, 1))
              = <<"High", "High", "High", "Medium", "Medium", "Medium", "Medium">>

\* C6's case: the call of the scenario has returned.
C6_Witness ==
    /\ Done
    /\ files = <<LoginPy>>
    /\ pr = Meta(IntV(1000), IntV(0), IntV(50))
    /\ result.risky_paths = 1
    /\ result.test_touched = 0

\* The entries of the impact map that are not one of the four conditional entries.
DirEntries(impact) == {k \in DOMAIN impact : impact[k] \notin Range(ImpactNotes)}

\* C7: review_focus has at most 5 entries, operational_notes at most 2, impact_map
\* at most 8: at most 4 directory entries, then conditional entries in the order
\* config, database, API contract, sensitive subsystem, each at most once.
C7_ListCaps ==
    Done =>
        LET impact == result.impact_map
            dirs == DirEntries(impact)
        IN  /\ Len(result.review_focus) <= 5
            /\ Len(result.operational_notes) <= 2
            /\ Len(impact) <= 8
            /\ Cardinality(dirs) <= 4
            /\ dirs = 1..Cardinality(dirs)
            /\ \A a, b \in DOMAIN impact \ dirs :
                   a < b => IndexOf(ImpactNotes, impact[a]) < IndexOf(ImpactNotes, impact[b])

\* C7's case: more than four directories, all four conditional entries, and six
\* review items whose conditions hold.
C7_Witness ==
    /\ Done
    /\ Len(st.top_dirs) > 4
    /\ Len(result.impact_map) = 8
    /\ Len(result.review_focus) = 5
    /\ result.level = "HIGH"
    /\ result.risky_paths > 0 /\ result.sql_files > 0 /\ result.config_files > 0
    /\ result.test_touched = 0

\* C8: the changed-file count is the one the metadata supplies whenever it supplies
\* one, 0 included, and the number of file records only when the field is missing;
\* missing or null additions and deletions count as 0.
C8_SuppliedCountIsUsed ==
    Done =>
        /\ pr.changed_files.k = "int" => result.changed_files = pr.changed_files.v
        /\ pr.changed_files.k = "missing" => result.changed_files = Len(files)
        /\ pr.additions \in {Missing, Null} => result.additions = 0
        /\ pr.deletions \in {Missing, Null} => result.deletions = 0

\* The sum of the detectors of the whole change: diff size, file count, renames.
HeadSum(fs, meta) ==
    DiffSize(IntOrZero(meta.additions), IntOrZero(meta.deletions))[1]
    + FileCount(ChangedFiles(fs, meta))[1]
    + RenameCount(Renames(fs))[1]

\* The sum of the per-file contributions of the first n files.
RECURSIVE FilesSum(_, _)
FilesSum(fs, n) == IF n = 0 THEN 0 ELSE FilesSum(fs, n - 1) + FileDelta(fs[n])

\* The sum of the detectors on the totals, from the counts of the files.
TailSum(fs) ==
    LET count(fact(_)) == Cardinality({k \in DOMAIN fs : fact(FileFacts(fs[k]).path)})
    IN  RiskyPaths([risky_paths |-> count(IsRisky)])[1]
        + ConfigFiles([config_files |-> count(IsConfig)])[1]
        + SqlFiles([sql_files |-> count(IsSql)])[1]
        + TestGap([core_code_touched |-> count(IsCode), test_touched |-> count(IsTest)])[1]

\* The permutations of 1..n and a file list permuted.
Perms(n) == {p \in [1..n -> 1..n] : \A a, b \in 1..n : a # b => p[a] # p[b]}

Permuted(fs, p) == [k \in DOMAIN fs |-> fs[p[k]]]

\* The fields of a result that do not depend on the order of the files.
OrderFree(r) ==
    <<r.score_100, r.score_10, r.level, r.confidence, r.config_files, r.sql_files,
      r.test_touched, r.risky_paths>>

\* C9: the running score is the plain sum of the contributions so far, never
\* negative and never clamped before the end; score_100 is min(100, sum), and every
\* permutation of the files gives the same scores, level, confidence and counters.
C9_SumThenClamp ==
    /\ pc \in {"loop", "clamp", "done"} => st.score >= 0
    /\ pc = "loop" => st.score = HeadSum(files, pr) + FilesSum(files, i - 1)
    /\ pc \in {"clamp", "done"} =>
           st.score = HeadSum(files, pr) + FilesSum(files, Len(files)) + TailSum(files)
    /\ Done =>
           /\ result.score_100 = Min(100, st.score)
           /\ \A p \in Perms(Len(files)) :
                  OrderFree(compute_risk(Permuted(files, p), pr)) = OrderFree(result)

\* C9's case: two different files, the sum past 100 before the loop has ended.
C9_Witness ==
    /\ Done
    /\ Len(files) = 2
    /\ files[1] # files[2]
    /\ HeadSum(files, pr) + FilesSum(files, 2) > 100
    /\ result.score_100 = 100

\* The four facts of the review items on the counters.
AllFourFacts(r) ==
    r.risky_paths > 0 /\ r.sql_files > 0 /\ r.config_files > 0 /\ r.test_touched = 0

\* C10: review_focus holds its items in the fixed order; the four items on the
\* counters are present exactly when their fact holds, the monitoring item exactly
\* when the level is MEDIUM or HIGH, the sign-off item exactly when the level is HIGH
\* and one of the four facts is false.
C10_ReviewFocus ==
    Done =>
        LET rf == result.review_focus
            has(k) == ReviewItems[k] \in Range(rf)
        IN  /\ Len(rf) <= 5
            /\ Range(rf) \subseteq Range(ReviewItems)
            /\ \A a, b \in DOMAIN rf :
                   a < b => IndexOf(ReviewItems, rf[a]) < IndexOf(ReviewItems, rf[b])
            /\ has(1) <=> result.risky_paths > 0
            /\ has(2) <=> result.sql_files > 0
            /\ has(3) <=> result.config_files > 0
            /\ has(4) <=> result.test_touched = 0
            /\ has(5) <=> result.level \in {"MEDIUM", "HIGH"}
            /\ has(6) <=> (result.level = "HIGH" /\ ~AllFourFacts(result))

\* C10's case: HIGH with all four facts, where the cap drops the sign-off item.
C10_Witness ==
    /\ Done
    /\ result.level = "HIGH"
    /\ AllFourFacts(result)
    /\ Len(result.review_focus) = 5
    /\ ReviewItems[6] \notin Range(result.review_focus)

=============================================================================
